---- MODULE Spec2Model ----
(***************************************************************************)
(* Paper-trading ledger of falcon-operator: the SQLite ledger written by   *)
(* OneCandlePaperTrader.place_order, the balance reconciler of             *)
(* account_balance_updater.py, the FIFO realized-P&L replay of             *)
(* scripts/backfill_pnl.py and the stop-loss monitor.                      *)
(*                                                                         *)
(* Numbers are fixed-point integers: a quantity counts 1/Scale shares and  *)
(* an amount of money 1/Scale dollars, so that quantity * price is an      *)
(* amount; prices are whole dollars per share.  The weighted-average entry *)
(* price, the one quotient the ledger stores, is kept as an exact reduced  *)
(* fraction <<numerator, denominator>>.                                    *)
(* The tables are the columns the code reads and writes; a column the code *)
(* does not supply on INSERT takes its default (current_price DEFAULT 0,   *)
(* tests/unit/test_account_balance_updater.py:58).                         *)
(***************************************************************************)
EXTENDS Integers, Sequences, FiniteSets, TLC

\* ------------------------------------------------------------------ bounds
MaxOrders == 2          \* place_order calls begun in one behaviour
MaxPriceUpdates == 1    \* current_price updates in one behaviour
MaxHistory == 3         \* orders in a history given to backfill_pnl
MaxRecords == 1         \* rows add_performance_record inserts in one behaviour
MaxNewTrades == 1       \* strategy_trades rows written in one behaviour
MaxInits == 3           \* init_account calls begun in one behaviour
MaxOutages == 1         \* storage outages begun in one behaviour

\* --------------------------------------------------------------- constants
Scale == 2                  \* fixed-point resolution: half shares, half dollars
Shares(n) == n * Scale
Dollars(n) == n * Scale

DiscrepancyThreshold == Dollars(1)   \* check_balance_discrepancy(threshold=1.0)

Symbols == {"A", "B"}
Traders == {"T1", "T2"}
OrderQtys == {Shares(1), Shares(2)}
OrderPrices == {-1, 0, 2}
MarkPrices == {3}
SeedCash == Dollars(10)
NoOwner == "none"

VARIABLES
    cash,          \* account.cash
    total_value,   \* account.total_value
    positions,     \* positions table: partial function symbol -> row
    orders,        \* orders table, in insertion (id) order
    lock,          \* holder of the SQLite write lock, or NoOwner
    ticker,        \* ticker[t]: the symbol trader t was constructed with
    trader,        \* per trader: position in place_order and its open transaction
    recon,         \* the reconciler: position in update/check and its locals
    seed,          \* the ledger at start: [cash, positions] (history variable)
    reconciled,    \* history: an update committed and no mutation since it began
    started,       \* history: place_order calls begun
    priceUpdates,  \* history: current_price updates done
    fifo,          \* backfill_pnl: what its latest runs read, computed and printed
    tieOrder,      \* how the database orders rows of equal timestamp
    monitor,       \* stop_loss_monitor: position in check_stop_losses, its locals
    performance,   \* performance table, in insertion order
    strategy,      \* strategy_trades and strategy_performance of one strategy
    storage        \* the database file: account row ids, outage, init_account callers

vars == <<cash, total_value, positions, orders, lock, ticker, trader, recon,
          seed, reconciled, started, priceUpdates, fifo, tieOrder, storage, monitor,
          performance, strategy>>

\* What the ledger's own operations leave alone.
offLedger == <<fifo, tieOrder, storage, monitor, performance, strategy>>

ledger == <<cash, positions, orders>>

\* Processes that call DatabaseManager.init_account.
Initers == {"I1", "I2"}

IdleIniter == [pc |-> "idle", initial_balance |-> 0, count_value |-> 0]

\* An initialised database that answers: one account row, id 1.
\* storage.up is FALSE while connecting or querying raises; storage.calls
\* and storage.outages are history: init_account calls begun, outages begun.
SoundStorage == [rows |-> {1}, up |-> TRUE,
                 init |-> [i \in Initers |-> IdleIniter],
                 calls |-> 0, outages |-> 0]

\* ------------------------------------------------------------- arithmetic
Abs(x) == IF x < 0 THEN -x ELSE x

RECURSIVE Gcd(_, _)
Gcd(a, b) == IF b = 0 THEN a ELSE Gcd(b, a % b)

\* A fraction in lowest terms with a positive denominator.
Frac(n, d) ==
    LET g == Gcd(Abs(n), Abs(d))
        s == IF d < 0 THEN -1 ELSE 1
    IN  <<(s * n) \div g, (s * d) \div g>>

RECURSIVE SumOver(_, _)
SumOver(S, f) ==
    IF S = {} THEN 0
    ELSE LET x == CHOOSE y \in S : TRUE
         IN  f[x] + SumOver(S \ {x}, f)

\* ---------------------------------------------------------------- tables
Held(pos) == DOMAIN pos

PutRow(pos, s, row) == [x \in Held(pos) \cup {s} |-> IF x = s THEN row ELSE pos[x]]

DeleteRow(pos, s) == [x \in Held(pos) \ {s} |-> pos[x]]

EmptyTx == [ins |-> <<>>, put |-> <<>>, del |-> FALSE, setcash |-> <<>>]

\* ----------------------------------------------- account_balance_updater
\* Variant: the positions are valued at their entry price.
PositionsValueAtEntry(pos) ==
    SumOver(Held(pos), [s \in Held(pos) |->
        (pos[s].quantity * pos[s].entry_price[1]) \div pos[s].entry_price[2]])

\* calculate_account_balance, lines 75-78: sum of quantity * current_price.
PositionsValue(pos) ==
    SumOver(Held(pos), [s \in Held(pos) |-> pos[s].quantity * pos[s].current_price])

\* calculate_account_balance, line 81.
CalcTotal(c, pos) == c + PositionsValue(pos)

\* check_balance_discrepancy, lines 209 and 217.
Discrepancy(calculated, stored) == calculated - stored

\* Variant: a discrepancy equal to the threshold is an issue too.
HasIssueAtThreshold(calculated, stored) ==
    Abs(Discrepancy(calculated, stored)) >= DiscrepancyThreshold

HasIssue(calculated, stored) ==
    Abs(Discrepancy(calculated, stored)) > DiscrepancyThreshold

\* Variant: the UPDATE sets the cash column as well.
AccountSetsCash(account, total) == [cash |-> total, total_value |-> total]

\* update_account_balance, lines 118-123: UPDATE account SET total_value = ?
\* (and last_updated, which the model does not keep).
AccountAfterUpdate(account, total) == [account EXCEPT !.total_value = total]

\* add_performance_record, lines 162-170: the row inserted.
PerformanceRow(balance) ==
    [total_value |-> balance.total, cash |-> balance.cash,
     positions_value |-> balance.total - balance.cash]

\* ------------------------------------------------------------ place_order
\* Lines 100-114: the positions write of a BUY.
BuyRow(pos, s, quantity, price) ==
    IF s \in Held(pos)
    THEN LET old == pos[s]
             new_qty == old.quantity + quantity
         IN  [old EXCEPT !.quantity = new_qty,
                         !.entry_price =
                             Frac(old.quantity * old.entry_price[1]
                                    + quantity * price * old.entry_price[2],
                                  old.entry_price[2] * new_qty)]
    ELSE [quantity |-> quantity, entry_price |-> Frac(price, 1),
          current_price |-> 0, stop_loss |-> 0]

\* Variant: the row is deleted only when the quantity falls below zero.
SellClosesBelowZero(old_qty, quantity) == old_qty - quantity < 0

\* Lines 129-131: a SELL closes the position when nothing is left.
SellCloses(old_qty, quantity) == old_qty - quantity <= 0

\* Lines 116-120 and 142-147: the new cash.
BuyCash(c, quantity, price) == c - quantity * price

SellCash(c, quantity, price) == c + quantity * price

\* Line 150: the P&L percentage divides by entry_price and by quantity.
PrintRaises(call) ==
    /\ call.side = "sell"
    /\ call.pos # <<>>
    /\ (call.pos[1].entry_price[1] = 0 \/ call.quantity = 0)

\* Variant: a connection in autocommit mode commits after every statement.
CommitsAtEveryStatement(stmt) == TRUE

\* sqlite3.connect (line 53) leaves the connection in its default mode: the
\* first INSERT opens a transaction that lasts until conn.commit() (line 152).
CommitsAt(stmt) == stmt = "commit"

\* The committed tables after a connection's transaction is applied.
ApplyOrders(tx) == orders \o tx.ins

ApplyPositions(tx, s) ==
    IF tx.del THEN DeleteRow(positions, s)
    ELSE IF tx.put # <<>> THEN PutRow(positions, s, tx.put[1])
    ELSE positions

ApplyCash(tx) == IF tx.setcash # <<>> THEN tx.setcash[1] ELSE cash

\* The total the ledger is worth: cash + sum of qty * current_price.
LedgerTotal(c, pos) ==
    LET value[S \in SUBSET Symbols] ==
            IF S = {} THEN 0
            ELSE LET s == CHOOSE x \in S : TRUE
                 IN  value[S \ {s}]
                       + (IF s \in DOMAIN pos
                          THEN pos[s].quantity * pos[s].current_price ELSE 0)
    IN  c + value[Symbols]

\* History kept for a running reconciliation: whether the ledger changed
\* under it and the totals of the committed ledgers it ran over.
Observe(r, changed, total) ==
    IF r.pc \in {"cashread", "computed"}
    THEN [r EXCEPT !.dirty = @ \/ changed, !.seen = @ \cup {total}]
    ELSE IF r.pc = "returned" THEN [r EXCEPT !.dirty = @ \/ changed]
    ELSE r

\* One statement of trader t has run and left transaction tx; either it
\* stays open (and t keeps the write lock) or it is committed.
Exec(t, stmt, tx, nextpc, call) ==
    IF CommitsAt(stmt)
    THEN /\ orders' = ApplyOrders(tx)
         /\ positions' = ApplyPositions(tx, ticker[t])
         /\ cash' = ApplyCash(tx)
         /\ lock' = IF lock = t THEN NoOwner ELSE lock
         /\ trader' = [trader EXCEPT ![t] =
                 [call EXCEPT !.pc = nextpc, !.tx = EmptyTx,
                              !.committed = @ + Len(tx.ins)]]
         /\ reconciled' = (reconciled /\ ledger' = ledger)
         /\ recon' = Observe(recon, ledger' # ledger, LedgerTotal(cash', positions'))
    ELSE /\ trader' = [trader EXCEPT ![t] = [call EXCEPT !.pc = nextpc, !.tx = tx]]
         /\ lock' = t
         /\ UNCHANGED <<cash, positions, orders, reconciled, recon>>


\* Variant: writers do not exclude each other.
LockNeverHeld(t) == TRUE

\* A connection can take the write lock when no other connection holds it.
LockFree(t) == lock \in {NoOwner, t}

\* datetime.now() of a new order: later than every stored order's.
LastTs == IF orders = <<>> THEN 0 ELSE orders[Len(orders)].timestamp

\* Lines 85-92: INSERT INTO orders; the statement opens the transaction.
PlaceInsert(t, side, quantity, price) ==
    /\ trader[t].pc = "idle"
    /\ started < MaxOrders
    /\ LockFree(t)
    /\ LET row == [id |-> Len(orders) + 1, symbol |-> ticker[t], side |-> side,
                   quantity |-> quantity, price |-> price,
                   timestamp |-> LastTs + 1,
                   pnl |-> 0]
           call == [trader[t] EXCEPT !.side = side, !.quantity = quantity,
                                     !.price = price, !.pos = <<>>]
       IN  Exec(t, "insert", [trader[t].tx EXCEPT !.ins = Append(@, row)],
                "inserted", call)
    /\ started' = started + 1
    /\ UNCHANGED <<offLedger, total_value, ticker, seed, priceUpdates>>

\* Another connection holds the write lock for longer than the busy timeout:
\* the INSERT raises "database is locked" and nothing was written.
PlaceBusy(t) ==
    /\ trader[t].pc = "idle"
    /\ started < MaxOrders
    /\ ~LockFree(t)
    /\ trader' = [trader EXCEPT ![t].pc = "raised"]
    /\ started' = started + 1
    /\ UNCHANGED <<offLedger, cash, total_value, positions, orders, lock, ticker, recon,
                   seed, reconciled, priceUpdates>>

\* Lines 95-114 (BUY) and 125-140 (SELL): read the position row, write it.
PlacePosition(t) ==
    /\ trader[t].pc = "inserted"
    /\ LET c == trader[t]
           s == ticker[t]
           pos == IF s \in Held(positions) THEN <<positions[s]>> ELSE <<>>
           tx == IF c.side = "buy"
                 THEN [c.tx EXCEPT !.put = <<BuyRow(positions, s, c.quantity, c.price)>>]
                 ELSE IF pos = <<>> THEN c.tx
                 ELSE IF SellCloses(pos[1].quantity, c.quantity)
                      THEN [c.tx EXCEPT !.del = TRUE]
                      ELSE [c.tx EXCEPT !.put =
                               <<[pos[1] EXCEPT !.quantity = @ - c.quantity]>>]
       IN  Exec(t, "position", tx, "positioned", [c EXCEPT !.pos = pos])
    /\ UNCHANGED <<offLedger, total_value, ticker, seed, started, priceUpdates>>

\* Lines 116-120 (BUY) and 142-147 (SELL, only when a position row was found).
PlaceCash(t) ==
    /\ trader[t].pc = "positioned"
    /\ LET c == trader[t]
           tx == IF c.side = "buy"
                 THEN [c.tx EXCEPT !.setcash = <<BuyCash(cash, c.quantity, c.price)>>]
                 ELSE IF c.pos = <<>> THEN c.tx
                 ELSE [c.tx EXCEPT !.setcash = <<SellCash(cash, c.quantity, c.price)>>]
       IN  Exec(t, "cash", tx, "cashed", c)
    /\ UNCHANGED <<offLedger, total_value, ticker, seed, started, priceUpdates>>

\* Line 152: conn.commit().
PlaceCommit(t) ==
    /\ trader[t].pc = "cashed"
    /\ ~PrintRaises(trader[t])
    /\ Exec(t, "commit", trader[t].tx, "idle", trader[t])
    /\ UNCHANGED <<offLedger, total_value, ticker, seed, started, priceUpdates>>

\* Line 150 raises ZeroDivisionError before the commit is reached.
PlaceRaise(t) ==
    /\ trader[t].pc = "cashed"
    /\ PrintRaises(trader[t])
    /\ trader' = [trader EXCEPT ![t].pc = "raised"]
    /\ UNCHANGED <<offLedger, cash, total_value, positions, orders, lock, ticker, recon,
                   seed, reconciled, started, priceUpdates>>

\* run(), lines 347-351: an exception leaves the loop and the finally clause
\* closes the connection, which rolls its open transaction back.
Close(t) ==
    /\ trader[t].pc = "raised"
    /\ trader' = [trader EXCEPT ![t].pc = "closed", ![t].tx = EmptyTx]
    /\ lock' = IF lock = t THEN NoOwner ELSE lock
    /\ UNCHANGED <<offLedger, cash, total_value, positions, orders, ticker, recon,
                   seed, reconciled, started, priceUpdates>>

\* A writer outside place_order sets positions.current_price
\* (tests/unit/test_account_balance_updater.py:468).
UpdatePrice(s, p) ==
    /\ priceUpdates < MaxPriceUpdates
    /\ lock = NoOwner
    /\ s \in Held(positions)
    /\ positions[s].current_price # p
    /\ positions' = [positions EXCEPT ![s].current_price = p]
    /\ priceUpdates' = priceUpdates + 1
    /\ reconciled' = FALSE
    /\ recon' = Observe(recon, TRUE, LedgerTotal(cash, positions'))
    /\ UNCHANGED <<offLedger, cash, total_value, orders, lock, ticker, trader, seed, started>>

\* calculate_account_balance, lines 55-66: connect, SELECT cash.
CalcReadCash(op) ==
    /\ recon.pc = "idle"
    /\ storage.up
    /\ 1 \in storage.rows
    /\ op = "record" => Len(performance) < MaxRecords
    /\ recon' = [pc |-> "cashread", op |-> op, cash |-> cash, total |-> 0,
                 ok |-> FALSE, has_issue |-> FALSE, dirty |-> FALSE,
                 discrepancy |-> 0, stored |-> 0,
                 seen |-> {LedgerTotal(cash, positions)}]
    /\ UNCHANGED <<offLedger, cash, total_value, positions, orders, lock, ticker, trader,
                   seed, reconciled, started, priceUpdates>>

\* calculate_account_balance, lines 69-90: SELECT the positions, add them up.
CalcReadPositions ==
    /\ recon.pc = "cashread"
    /\ storage.up
    /\ recon' = [recon EXCEPT !.pc = "computed",
                              !.total = CalcTotal(recon.cash, positions)]
    /\ UNCHANGED <<offLedger, cash, total_value, positions, orders, lock, ticker, trader,
                   seed, reconciled, started, priceUpdates>>

\* update_account_balance, lines 114-134: UPDATE account SET total_value, commit.
UpdateWrite ==
    /\ recon.pc = "computed"
    /\ recon.op = "update"
    /\ storage.up
    /\ lock = NoOwner
    /\ LET account == AccountAfterUpdate(
                          [cash |-> cash, total_value |-> total_value], recon.total)
       IN  /\ cash' = account.cash
           /\ total_value' = account.total_value
    /\ recon' = [recon EXCEPT !.pc = "returned", !.ok = TRUE]
    /\ reconciled' = ~recon.dirty
    /\ UNCHANGED <<offLedger, positions, orders, lock, ticker, trader, seed,
                   started, priceUpdates>>

\* update_account_balance, lines 136-138: the UPDATE found the database
\* locked; the exception is logged and None is returned.
UpdateBusy ==
    /\ recon.pc = "computed"
    /\ recon.op = "update"
    /\ lock # NoOwner
    /\ recon' = [recon EXCEPT !.pc = "returned", !.ok = FALSE]
    /\ UNCHANGED <<offLedger, cash, total_value, positions, orders, lock, ticker, trader,
                   seed, reconciled, started, priceUpdates>>

\* check_balance_discrepancy, lines 199-226: SELECT total_value, compare.
CheckReadStored ==
    /\ recon.pc = "computed"
    /\ recon.op = "check"
    /\ storage.up
    /\ recon' = [recon EXCEPT !.pc = "returned", !.ok = TRUE,
                              !.stored = total_value,
                              !.discrepancy = Discrepancy(recon.total, total_value),
                              !.has_issue = HasIssue(recon.total, total_value)]
    /\ UNCHANGED <<offLedger, cash, total_value, positions, orders, lock, ticker, trader,
                   seed, reconciled, started, priceUpdates>>

\* add_performance_record, lines 158-176: INSERT INTO performance, commit.
PerformanceWrite ==
    /\ recon.pc = "computed"
    /\ recon.op = "record"
    /\ storage.up
    /\ lock = NoOwner
    /\ performance' = Append(performance, PerformanceRow(recon))
    /\ recon' = [recon EXCEPT !.pc = "returned", !.ok = TRUE]
    /\ UNCHANGED <<fifo, tieOrder, storage, monitor, strategy, cash, total_value, positions,
                   orders, lock, ticker, trader, seed, reconciled, started,
                   priceUpdates>>

\* add_performance_record, lines 178-180: the INSERT found the database
\* locked; the exception is logged and False is returned.
PerformanceBusy ==
    /\ recon.pc = "computed"
    /\ recon.op = "record"
    /\ lock # NoOwner
    /\ recon' = [recon EXCEPT !.pc = "returned", !.ok = FALSE]
    /\ UNCHANGED <<offLedger, cash, total_value, positions, orders, lock, ticker, trader,
                   seed, reconciled, started, priceUpdates>>

\* Variant: the exception leaves the function.
Raised(r) == [r EXCEPT !.pc = "raised", !.ok = FALSE]

\* Lines 62-64, 92-94, 112-113, 136-138, 159-160, 178-180, 196-197 and
\* 228-230: the error is logged and None (False from add_performance_record)
\* is returned.
Failed(r) == [r EXCEPT !.pc = "returned", !.ok = FALSE]

\* calculate_account_balance finds no account row (lines 62-64) or its
\* connection or query raises (lines 92-94); the operation that called it
\* returns at once (lines 112-113, 159-160, 196-197).
CalcFails(op) ==
    /\ recon.pc = "idle"
    /\ ~storage.up \/ 1 \notin storage.rows
    /\ recon' = Failed([pc |-> "idle", op |-> op, cash |-> 0, total |-> 0,
                        ok |-> FALSE, has_issue |-> FALSE, dirty |-> FALSE,
                        discrepancy |-> 0, stored |-> 0, seen |-> {}])
    /\ UNCHANGED <<offLedger, cash, total_value, positions, orders, lock, ticker, trader,
                   seed, reconciled, started, priceUpdates>>

\* A later statement of the operation raises: the SELECT of the positions,
\* or the connection and statement of the operation itself.
OperationFails ==
    /\ recon.pc \in {"cashread", "computed"}
    /\ ~storage.up
    /\ recon' = Failed(recon)
    /\ UNCHANGED <<offLedger, cash, total_value, positions, orders, lock, ticker, trader,
                   seed, reconciled, started, priceUpdates>>

\* The database file becomes unreachable (every connect or query raises),
\* and reachable again.
StorageFails ==
    /\ storage.up
    /\ storage.outages < MaxOutages
    /\ storage' = [storage EXCEPT !.up = FALSE, !.outages = @ + 1]
    /\ UNCHANGED <<fifo, tieOrder, monitor, performance, strategy, cash, total_value,
                   positions, orders, lock, ticker, trader, recon, seed, reconciled,
                   started, priceUpdates>>

StorageRecovers ==
    /\ ~storage.up
    /\ storage' = [storage EXCEPT !.up = TRUE]
    /\ UNCHANGED <<fifo, tieOrder, monitor, performance, strategy, cash, total_value,
                   positions, orders, lock, ticker, trader, recon, seed, reconciled,
                   started, priceUpdates>>

\* The caller has the result; the reconciler is ready for its next run.
ReconReturn ==
    /\ recon.pc = "returned"
    /\ recon' = [recon EXCEPT !.pc = "idle", !.seen = {}, !.dirty = FALSE,
                              !.cash = 0, !.total = 0, !.ok = FALSE,
                              !.has_issue = FALSE, !.discrepancy = 0,
                              !.stored = 0]
    /\ UNCHANGED <<offLedger, cash, total_value, positions, orders, lock, ticker, trader,
                   seed, reconciled, started, priceUpdates>>

\* ---------------------------------------------------------- db_manager.py
\* init_account runs two statements, each on a connection of its own
\* (execute, lines 112-152); the INSERT is committed by execute.
InitBalances == {Dollars(10), Dollars(50)}

\* Variant: the row takes the next free id.
NextFreeId(rows) == Cardinality(rows) + 1

\* Lines 510-513: VALUES (1, initial_balance, timestamp).
AccountId(rows) == 1

\* Lines 502-503: SELECT COUNT(*) FROM account.
InitCount(i, initial_balance) ==
    /\ storage.init[i].pc = "idle"
    /\ storage.calls < MaxInits
    /\ storage.up
    /\ storage' = [storage EXCEPT
           !.init[i] = [pc |-> "counted", initial_balance |-> initial_balance,
                        count_value |-> Cardinality(storage.rows)],
           !.calls = @ + 1]
    /\ UNCHANGED <<fifo, tieOrder, monitor, performance, strategy, cash, total_value, positions, orders, lock, ticker,
                   trader, recon, seed, reconciled, started, priceUpdates>>

\* Lines 505-514: no row was counted and the INSERT of id 1 is committed
\* (account.id is the PRIMARY KEY, lines 179-183; total_value is the
\* column's default).
InitInsert(i) ==
    /\ storage.init[i].pc = "counted"
    /\ storage.init[i].count_value = 0
    /\ lock = NoOwner
    /\ AccountId(storage.rows) \notin storage.rows
    /\ storage' = [storage EXCEPT !.init[i].pc = "done",
                                  !.rows = @ \cup {AccountId(storage.rows)}]
    /\ cash' = IF AccountId(storage.rows) = 1
               THEN storage.init[i].initial_balance ELSE cash
    /\ total_value' = IF AccountId(storage.rows) = 1 THEN 0 ELSE total_value
    /\ UNCHANGED <<fifo, tieOrder, monitor, performance, strategy, positions, orders, lock, ticker, trader, recon,
                   seed, reconciled, started, priceUpdates>>

\* Lines 510-513: no row was counted but the INSERT raises: another caller
\* has inserted id 1 since (IntegrityError), or the database is locked.
InitInsertRaises(i) ==
    /\ storage.init[i].pc = "counted"
    /\ storage.init[i].count_value = 0
    /\ \/ AccountId(storage.rows) \in storage.rows
       \/ lock # NoOwner
    /\ storage' = [storage EXCEPT !.init[i].pc = "raised"]
    /\ UNCHANGED <<fifo, tieOrder, monitor, performance, strategy, cash, total_value, positions, orders, lock, ticker,
                   trader, recon, seed, reconciled, started, priceUpdates>>

\* Lines 515-516: a row was counted; "Account already exists".
InitExists(i) ==
    /\ storage.init[i].pc = "counted"
    /\ storage.init[i].count_value # 0
    /\ storage' = [storage EXCEPT !.init[i].pc = "done"]
    /\ UNCHANGED <<fifo, tieOrder, monitor, performance, strategy, cash, total_value, positions, orders, lock, ticker,
                   trader, recon, seed, reconciled, started, priceUpdates>>

\* init_account has returned or raised; its caller may call it again.
InitReturn(i) ==
    /\ storage.init[i].pc \in {"done", "raised"}
    /\ storage.calls < MaxInits
    /\ storage' = [storage EXCEPT !.init[i] = IdleIniter]
    /\ UNCHANGED <<fifo, tieOrder, monitor, performance, strategy, cash, total_value, positions, orders, lock, ticker,
                   trader, recon, seed, reconciled, started, priceUpdates>>

\* ------------------------------------------------ scripts/backfill_pnl.py
\* fifo.last is the latest run; fifo.applied is what the latest --apply run
\* before it computed (history).
NoRuns == [last |-> <<>>, applied |-> <<>>]

\* Row a comes before row b in "ORDER BY timestamp ASC" (lines 32-36); the
\* statement leaves the order of equal timestamps to the database.
ComesBefore(a, b, tie) ==
    \/ a.timestamp < b.timestamp
    \/ /\ a.timestamp = b.timestamp
       /\ IF tie = "id_asc" THEN a.id < b.id ELSE a.id > b.id

RECURSIVE SortRows(_, _)
SortRows(rows, tie) ==
    IF rows = {} THEN <<>>
    ELSE LET first == CHOOSE a \in rows :
                          \A b \in rows \ {a} : ComesBefore(a, b, tie)
         IN  <<first>> \o SortRows(rows \ {first}, tie)

\* Lines 32-37: all orders sorted by timestamp.
ReadOrders(os, tie) == SortRows({os[i] : i \in DOMAIN os}, tie)

\* Line 75: the oldest lot is used whole.
UsesEntireLot(lot_quantity, remaining_qty) == lot_quantity <= remaining_qty

\* Variant: the sell is matched against the newest lot first.
RECURSIVE MatchLotsNewestFirst(_, _, _, _)
MatchLotsNewestFirst(lots, remaining_qty, price, calculated_pnl) ==
    IF remaining_qty > 0 /\ lots # <<>>
    THEN LET newest == lots[Len(lots)]
             older == SubSeq(lots, 1, Len(lots) - 1)
         IN  IF newest.quantity <= remaining_qty
             THEN MatchLotsNewestFirst(older, remaining_qty - newest.quantity, price,
                            calculated_pnl + (price - newest.price) * newest.quantity)
             ELSE MatchLotsNewestFirst(
                            Append(older, [newest EXCEPT !.quantity = @ - remaining_qty]),
                            0, price,
                            calculated_pnl + (price - newest.price) * remaining_qty)
    ELSE [lots |-> lots, remaining_qty |-> remaining_qty,
          calculated_pnl |-> calculated_pnl]

\* Lines 71-87: match a sell against the symbol's lots, oldest first.
RECURSIVE MatchLots(_, _, _, _)
MatchLots(lots, remaining_qty, price, calculated_pnl) ==
    IF remaining_qty > 0 /\ lots # <<>>
    THEN LET oldest == Head(lots)
         IN  IF UsesEntireLot(oldest.quantity, remaining_qty)
             THEN MatchLots(Tail(lots), remaining_qty - oldest.quantity, price,
                            calculated_pnl + (price - oldest.price) * oldest.quantity)
             ELSE MatchLots(<<[oldest EXCEPT !.quantity = @ - remaining_qty]>>
                              \o Tail(lots),
                            0, price,
                            calculated_pnl + (price - oldest.price) * remaining_qty)
    ELSE [lots |-> lots, remaining_qty |-> remaining_qty,
          calculated_pnl |-> calculated_pnl]

\* Variant: every sell is written, whatever is stored.
NeedsUpdateAlways(calculated_pnl, current_pnl) == TRUE

\* Line 94: abs(calculated_pnl - current_pnl) > 0.001 (dollars).
NeedsUpdate(calculated_pnl, current_pnl) ==
    Abs(calculated_pnl - current_pnl) * 1000 > Scale

\* Variant: an unmatched sell is not reported.
UnmatchedNever(remaining_qty) == FALSE

\* Line 90: part of the sell found no lot.
Unmatched(remaining_qty) == remaining_qty > 0

\* Lines 49-102: one iteration of the loop over the orders.
ProcessOrder(st, order) ==
    IF order.side = "buy"
    THEN [st EXCEPT !.lots[order.symbol] =
              Append(@, [price |-> order.price, quantity |-> order.quantity,
                         timestamp |-> order.timestamp])]
    ELSE LET m == MatchLots(st.lots[order.symbol], order.quantity, order.price, 0)
             warned == IF Unmatched(m.remaining_qty)
                       THEN Append(st.warnings,
                                   [id |-> order.id, symbol |-> order.symbol,
                                    quantity |-> order.quantity,
                                    unmatched |-> m.remaining_qty])
                       ELSE st.warnings
             calc == Append(st.calc, [id |-> order.id, pnl |-> m.calculated_pnl])
         IN  IF NeedsUpdate(m.calculated_pnl, order.pnl)
             THEN [st EXCEPT !.lots[order.symbol] = m.lots,
                             !.warnings = warned,
                             !.calc = calc,
                             !.updates = Append(@, [id |-> order.id,
                                                    old_pnl |-> order.pnl,
                                                    new_pnl |-> m.calculated_pnl]),
                             !.total_pnl = @ + m.calculated_pnl]
             ELSE [st EXCEPT !.lots[order.symbol] = m.lots,
                             !.warnings = warned,
                             !.calc = calc]

RECURSIVE FifoLoop(_, _)
FifoLoop(list, st) ==
    IF list = <<>> THEN st
    ELSE FifoLoop(Tail(list), ProcessOrder(st, Head(list)))

\* Lines 41-47: the state before the loop.
FifoStart == [lots |-> [s \in Symbols |-> <<>>], updates |-> <<>>,
              warnings |-> <<>>, calc |-> <<>>, total_pnl |-> 0]

\* Lines 121-125: UPDATE orders SET pnl = ? WHERE id = ?, for every update.
RECURSIVE ApplyUpdates(_, _)
ApplyUpdates(os, updates) ==
    IF updates = <<>> THEN os
    ELSE LET u == Head(updates)
         IN  ApplyUpdates([i \in DOMAIN os |->
                              IF os[i].id = u.id THEN [os[i] EXCEPT !.pnl = u.new_pnl]
                              ELSE os[i]],
                          Tail(updates))

\* Variant: the updates are written in a dry run too.
WritesUpdatesAlways(dry_run, updates) == updates # <<>>

\* Lines 109 and 118: if updates: ... if not dry_run.
WritesUpdates(dry_run, updates) == ~dry_run /\ updates # <<>>

\* backfill_pnl(db_path, dry_run), lines 15-132.
Backfill(dry_run) ==
    /\ lock = NoOwner
    /\ LET list == ReadOrders(orders, tieOrder)
           st == FifoLoop(list, FifoStart)
       IN  /\ orders' = IF WritesUpdates(dry_run, st.updates)
                        THEN ApplyUpdates(orders, st.updates)
                        ELSE orders
           /\ fifo' = [last |-> <<[dry_run |-> dry_run, list |-> list,
                                   lots |-> st.lots, calc |-> st.calc,
                                   updates |-> st.updates,
                                   warnings |-> st.warnings]>>,
                       applied |-> IF fifo.last # <<>> /\ ~fifo.last[1].dry_run
                                   THEN <<fifo.last[1].calc>>
                                   ELSE fifo.applied]
    /\ UNCHANGED <<cash, total_value, positions, lock, ticker, trader, recon,
                   seed, reconciled, started, priceUpdates, tieOrder, storage, monitor,
                   performance, strategy>>

\* --------------------------------------------------- stop_loss_monitor.py
\* monitor.running is the module's flag of line 22. monitor.exits is
\* history: the exit orders that were filled, each with the quantity the
\* position held when it was applied; monitor.skipped is history too: the
\* symbols whose quote was None in the latest iteration; and so is
\* monitor.interrupted: where the loop was when the signal arrived.
\* monitor.error: the latest iteration ended in the except clause of main.
IdleMonitor == [pc |-> "sleep", work |-> <<>>, price |-> 0, exits |-> <<>>,
                skipped |-> {}, running |-> TRUE, interrupted |-> "never",
                error |-> FALSE]

\* get_current_price returns None, kept as <<>>, or a price p, kept as <<p>>.
NoQuote == <<>>

\* Lines 32-36: WHERE stop_loss IS NOT NULL AND stop_loss > 0 (a NULL
\* stop_loss is kept as 0).
HasStopLoss(row) == row.stop_loss > 0

\* Lines 38-46: the rows as dicts, in the order the database returns them.
StopLossLists ==
    LET S == {s \in Held(positions) : HasStopLoss(positions[s])}
    IN  {[i \in 1..Cardinality(S) |->
             [symbol |-> f[i], quantity |-> positions[f[i]].quantity,
              entry_price |-> positions[f[i]].entry_price,
              stop_loss |-> positions[f[i]].stop_loss]] :
         f \in {g \in [1..Cardinality(S) -> S] :
                    \A a, b \in 1..Cardinality(S) : a # b => g[a] # g[b]}}

\* Variant: a quote equal to the stop-loss does not trigger.
TriggeredBelow(current_price, stop_loss) == current_price < stop_loss

\* Line 120: the stop-loss is triggered.
Triggered(current_price, stop_loss) == current_price <= stop_loss

\* Line 68: 'quantity': int(quantity) truncates to whole shares.
IntQuantity(quantity) == (quantity \div Scale) * Scale

\* The loop of check_stop_losses moves to its next position, or returns.
NextPosition(m) ==
    [m EXCEPT !.work = Tail(@),
              !.pc = IF Len(m.work) > 1 THEN "fetch" ELSE "sleep",
              !.price = 0]

\* Variant: a missing quote ends the iteration (return for continue).
AfterNoQuoteReturns(m) == [m EXCEPT !.work = <<>>, !.pc = "sleep", !.price = 0]

\* Lines 116-117: without a quote the loop continues with the next position.
AfterNoQuote(m) == NextPosition(m)

\* Variant: the loop does not test the flag.
LoopContinuesAlways(m) == TRUE

\* Line 143: while running.
LoopContinues(m) == m.running

\* main, lines 143-148, and check_stop_losses, lines 102-105: the loop
\* test passes and the positions that have a stop-loss are read.
MonitorTick ==
    /\ monitor.pc = "sleep"
    /\ LoopContinues(monitor)
    /\ storage.up
    /\ \E list \in StopLossLists :
          /\ list # <<>>
          /\ monitor' = [monitor EXCEPT !.pc = "fetch", !.work = list,
                                        !.skipped = {}, !.error = FALSE]
    /\ UNCHANGED <<cash, total_value, positions, orders, lock, ticker, trader,
                   recon, seed, reconciled, started, priceUpdates, fifo, tieOrder, storage,
                   performance, strategy>>

\* Lines 113-122 with get_current_price, lines 48-60: the quote is a price
\* or None; None and a price above the stop-loss go on to the next position.
MonitorFetch(current_price) ==
    /\ monitor.pc = "fetch"
    /\ monitor' =
          IF current_price = NoQuote
          THEN [AfterNoQuote(monitor) EXCEPT !.skipped =
                    monitor.skipped \cup {Head(monitor.work).symbol}]
          ELSE IF Triggered(current_price[1], Head(monitor.work).stop_loss)
          THEN [monitor EXCEPT !.pc = "post", !.price = current_price[1]]
          ELSE NextPosition(monitor)
    /\ UNCHANGED <<cash, total_value, positions, orders, lock, ticker, trader,
                   recon, seed, reconciled, started, priceUpdates, fifo, tieOrder, storage,
                   performance, strategy>>

\* The order service behind POST /api/order applies a filled sell with
\* place_order (paper_trade_one_candle.py, lines 89-92 and 124-152), as one
\* transaction: the order row, then, when a position row is found, the
\* quantity decrement with deletion at or below zero and the cash credit.
PlacedPositions(s, quantity) ==
    IF s \notin Held(positions) THEN positions
    ELSE IF SellCloses(positions[s].quantity, quantity)
    THEN DeleteRow(positions, s)
    ELSE [positions EXCEPT ![s].quantity = @ - quantity]

PlacedCash(s, quantity, price) ==
    IF s \notin Held(positions) THEN cash
    ELSE SellCash(cash, quantity, price)

\* execute_stop_loss_sell, lines 64-91: the POST is answered 200.
\* exits[i].held is the quantity held when the order was applied.
MonitorPostFilled(fill_price) ==
    /\ monitor.pc = "post"
    /\ storage.up
    /\ started < MaxOrders
    /\ lock = NoOwner
    /\ LET pos == Head(monitor.work)
           quantity == IntQuantity(pos.quantity)
       IN  /\ orders' = Append(orders,
                  [id |-> Len(orders) + 1, symbol |-> pos.symbol, side |-> "sell",
                   quantity |-> quantity, price |-> fill_price,
                   timestamp |-> LastTs + 1, pnl |-> 0])
           /\ positions' = PlacedPositions(pos.symbol, quantity)
           /\ cash' = PlacedCash(pos.symbol, quantity, fill_price)
           /\ monitor' = [NextPosition(monitor) EXCEPT !.exits =
                  Append(@, [symbol |-> pos.symbol, quantity |-> quantity,
                             held |-> IF pos.symbol \in Held(positions)
                                      THEN positions[pos.symbol].quantity
                                      ELSE 0])]
    /\ started' = started + 1
    /\ reconciled' = FALSE
    /\ recon' = Observe(recon, TRUE, LedgerTotal(cash', positions'))
    /\ UNCHANGED <<total_value, lock, ticker, trader, seed, priceUpdates,
                   fifo, tieOrder, storage, performance, strategy>>

\* execute_stop_loss_sell, lines 92-98: another status, or the request
\* raised; nothing was filled.
MonitorPostFailed ==
    /\ monitor.pc = "post"
    /\ monitor' = NextPosition(monitor)
    /\ UNCHANGED <<cash, total_value, positions, orders, lock, ticker, trader,
                   recon, seed, reconciled, started, priceUpdates, fifo, tieOrder, storage,
                   performance, strategy>>

\* Variant: the exception leaves main.
LoopAfterErrorExits(m) == [m EXCEPT !.pc = "stopped", !.error = TRUE]

\* main, lines 158-160: the exception is printed and, after the sleep, the
\* loop test is made again.
LoopAfterError(m) == [m EXCEPT !.pc = "sleep", !.error = TRUE]

\* check_stop_losses, line 102: the query of get_positions_with_stop_loss
\* raises (db.execute, lines 30-36).
MonitorTickRaises ==
    /\ monitor.pc = "sleep"
    /\ LoopContinues(monitor)
    /\ ~storage.up
    /\ monitor' = LoopAfterError(monitor)
    /\ UNCHANGED <<cash, total_value, positions, orders, lock, ticker, trader,
                   recon, seed, reconciled, started, priceUpdates, fifo, tieOrder,
                   storage, performance, strategy>>

\* signal_handler, lines 24-28: SIGINT or SIGTERM is delivered, at any point
\* of the loop; the handler clears the flag and the interrupted call resumes.
Signal ==
    /\ monitor.pc # "stopped"
    /\ monitor.running
    /\ monitor' = [monitor EXCEPT !.running = FALSE, !.interrupted = monitor.pc]
    /\ UNCHANGED <<cash, total_value, positions, orders, lock, ticker, trader,
                   recon, seed, reconciled, started, priceUpdates, fifo, tieOrder, storage,
                   performance, strategy>>

\* main, lines 143 and 162-163: the loop test fails and the process exits.
MonitorStop ==
    /\ monitor.pc = "sleep"
    /\ ~LoopContinues(monitor)
    /\ monitor' = [monitor EXCEPT !.pc = "stopped"]
    /\ UNCHANGED <<cash, total_value, positions, orders, lock, ticker, trader,
                   recon, seed, reconciled, started, priceUpdates, fifo, tieOrder, storage,
                   performance, strategy>>

\* --------------------------------------------------- strategy_analytics.py
\* strategy.trades is the strategy's rows of strategy_trades in timestamp
\* order, each [side, pnl] with pnl in whole dollars; strategy.perf is its
\* strategy_performance row, <<>> when there is none; strategy.result is
\* what the latest check_optimization_triggers read and returned;
\* strategy.profit_factor what the latest _calculate_profit_factor returned;
\* strategy.added counts the rows written since the start (history).
\* sum(t['pnl'] for t in trades if ...): the P&L of the first n trades
\* that are of the kind ("all", "won" for pnl > 0, "lost" for pnl < 0).
RECURSIVE SumPnlTo(_, _, _)
SumPnlTo(trades, n, kind) ==
    IF n = 0 THEN 0
    ELSE (IF \/ kind = "all"
             \/ kind = "won" /\ trades[n].pnl > 0
             \/ kind = "lost" /\ trades[n].pnl < 0
          THEN trades[n].pnl ELSE 0)
         + SumPnlTo(trades, n - 1, kind)

SumPnl(trades) == SumPnlTo(trades, Len(trades), "all")

\* len([t for t in trades if ...]) over the first n trades.
RECURSIVE CountTo(_, _, _)
CountTo(trades, n, kind) ==
    IF n = 0 THEN 0
    ELSE (IF \/ kind = "won" /\ trades[n].pnl > 0
             \/ kind = "lost" /\ trades[n].pnl < 0
          THEN 1 ELSE 0)
         + CountTo(trades, n - 1, kind)

\* Rationals are <<n, d>> with d > 0.
FracLess(a, b) == a[1] * b[2] < b[1] * a[2]

FracMax(a, b) == IF FracLess(a, b) THEN b ELSE a

\* _calculate_consecutive_losses, lines 72-78.
RECURSIVE LossesBefore(_, _)
LossesBefore(trades, n) ==
    IF n = 0 THEN 0
    ELSE IF trades[n].pnl < 0 THEN 1 + LossesBefore(trades, n - 1)
         ELSE 0

ConsecutiveLosses(trades) == LossesBefore(trades, Len(trades))

\* _calculate_profit_factor, lines 90-91.
GrossProfit(trades) == SumPnlTo(trades, Len(trades), "won")

GrossLoss(trades) == Abs(SumPnlTo(trades, Len(trades), "lost"))

\* Variant: the quotient is taken whatever the gross loss; a denominator of
\* 0 stands for the ZeroDivisionError.
ProfitFactorUnguarded(trades) ==
    IF GrossLoss(trades) = 0 THEN <<GrossProfit(trades), 0>>
    ELSE Frac(GrossProfit(trades), GrossLoss(trades))

\* _calculate_profit_factor, lines 90-95.
ProfitFactor(trades) ==
    IF GrossLoss(trades) = 0
    THEN IF GrossProfit(trades) > 0 THEN <<GrossProfit(trades), 1>> ELSE <<0, 1>>
    ELSE Frac(GrossProfit(trades), GrossLoss(trades))

\* Lines 124 and 130: (peak - pnl) / abs(peak), 0 when the peak is 0.
DrawdownFrom(peak, pnl) ==
    IF peak # 0 THEN Frac(peak - pnl, Abs(peak)) ELSE <<0, 1>>

\* _calculate_drawdown, lines 110-125: the two loops after the first n
\* trades; total is the cumulative P&L, peak the highest cumulative P&L so
\* far (it starts at the first one) and max the largest drawdown so far.
RECURSIVE DrawdownAfter(_, _)
DrawdownAfter(trades, n) ==
    IF n = 1
    THEN [total |-> trades[1].pnl, peak |-> trades[1].pnl,
          max |-> FracMax(<<0, 1>>, DrawdownFrom(trades[1].pnl, trades[1].pnl))]
    ELSE LET before == DrawdownAfter(trades, n - 1)
             pnl == before.total + trades[n].pnl
             peak == IF pnl > before.peak THEN pnl ELSE before.peak
         IN  [total |-> pnl, peak |-> peak,
              max |-> FracMax(before.max, DrawdownFrom(peak, pnl))]

\* _calculate_drawdown, lines 107-132.
Drawdown(trades) ==
    IF trades = <<>> THEN [max |-> <<0, 1>>, current |-> <<0, 1>>]
    ELSE LET end == DrawdownAfter(trades, Len(trades))
         IN  [max |-> end.max, current |-> DrawdownFrom(end.peak, end.total)]

\* _calculate_roi, lines 145-147, with initial_allocation = 10000.
Roi(trades) == Frac(SumPnl(trades) * 100, 10000)

\* update_strategy_performance, lines 172-182: the metrics of the row.
PerformanceOf(trades) ==
    LET total_trades == Len(trades)
        winning_trades == CountTo(trades, Len(trades), "won")
        losing_trades == CountTo(trades, Len(trades), "lost")
        drawdown == Drawdown(trades)
    IN  [total_trades |-> total_trades,
         winning_trades |-> winning_trades,
         losing_trades |-> losing_trades,
         consecutive_losses |-> ConsecutiveLosses(trades),
         total_pnl |-> SumPnl(trades),
         win_rate |-> IF total_trades > 0 THEN Frac(winning_trades, total_trades)
                      ELSE <<0, 1>>,
         profit_factor |-> ProfitFactor(trades),
         max_drawdown |-> drawdown.max,
         current_drawdown |-> drawdown.current,
         roi_pct |-> Roi(trades)]

\* Variant: the streak must exceed five.
LossStreakTriggerAboveFive(perf) == perf.consecutive_losses > 5

\* check_optimization_triggers, line 266.
LossStreakTrigger(perf) == perf.consecutive_losses >= 5

\* Line 270: at least 20 trades and a win rate below 0.40.
WinRateTrigger(perf) == perf.total_trades >= 20 /\ FracLess(perf.win_rate, <<40, 100>>)

\* Line 274: a current drawdown above 0.15.
DrawdownTrigger(perf) == FracLess(<<15, 100>>, perf.current_drawdown)

\* Line 278: at least 20 trades and a negative total P&L.
NegativePnlTrigger(perf) == perf.total_trades >= 20 /\ perf.total_pnl < 0

\* check_optimization_triggers, lines 260-281; perf is <<>> or <<row>>.
OptimizationTriggers(perf) ==
    IF perf = <<>> THEN [should_optimize |-> FALSE, reason |-> ""]
    ELSE IF LossStreakTrigger(perf[1])
         THEN [should_optimize |-> TRUE, reason |-> "5 consecutive losses"]
    ELSE IF WinRateTrigger(perf[1])
         THEN [should_optimize |-> TRUE, reason |-> "Win rate below 40%"]
    ELSE IF DrawdownTrigger(perf[1])
         THEN [should_optimize |-> TRUE, reason |-> "Drawdown above 15%"]
    ELSE IF NegativePnlTrigger(perf[1])
         THEN [should_optimize |-> TRUE, reason |-> "Negative P&L"]
    ELSE [should_optimize |-> FALSE, reason |-> ""]

notStrategy == <<cash, total_value, positions, orders, lock, ticker, trader, recon,
                 seed, reconciled, started, priceUpdates, fifo, tieOrder, storage, monitor,
                 performance>>

\* A trade attributed to the strategy is written to strategy_trades: an
\* entry carries the column's default pnl, an exit its realized pnl. What
\* the callers were last returned (result, profit_factor) described the
\* table before the row and is dropped.
RecordTrade(side, pnl) ==
    /\ strategy.added < MaxNewTrades
    /\ side = "buy" => pnl = 0
    /\ strategy' = [strategy EXCEPT !.trades = Append(@, [side |-> side, pnl |-> pnl]),
                                    !.added = @ + 1,
                                    !.result = <<>>,
                                    !.profit_factor = <<>>]
    /\ UNCHANGED notStrategy

\* update_strategy_performance, lines 163-209: nothing is written for a
\* strategy without trades; otherwise the row is inserted or replaced.
UpdateStrategyPerformance ==
    /\ strategy' = IF strategy.trades = <<>> THEN strategy
                   ELSE [strategy EXCEPT !.perf = <<PerformanceOf(strategy.trades)>>,
                                         !.result = <<>>]
    /\ UNCHANGED notStrategy

\* check_optimization_triggers, lines 260-281: result holds what the call
\* returned for the stored row.
CheckOptimizationTriggers ==
    /\ strategy' = [strategy EXCEPT !.result = <<OptimizationTriggers(strategy.perf)>>]
    /\ UNCHANGED notStrategy

\* _calculate_profit_factor called on the stored trades.
CalculateProfitFactor ==
    /\ strategy' = [strategy EXCEPT !.profit_factor = <<ProfitFactor(strategy.trades)>>]
    /\ UNCHANGED notStrategy

\* ------------------------------------------------------------------ Init
\* No trade and no performance row of the strategy is stored.
NoStrategy == [trades |-> <<>>, perf |-> <<>>, result |-> <<>>,
               profit_factor |-> <<>>, added |-> 0]

SeedRow == [quantity |-> Shares(2), entry_price |-> <<2, 1>>, current_price |-> 2,
            stop_loss |-> 0]

IdleTrader == [pc |-> "idle", side |-> "buy", quantity |-> 0, price |-> 0,
               pos |-> <<>>, tx |-> EmptyTx, committed |-> 0]

IdleRecon == [pc |-> "idle", op |-> "update", cash |-> 0, total |-> 0,
              ok |-> FALSE, has_issue |-> FALSE, dirty |-> FALSE,
              discrepancy |-> 0, stored |-> 0, seen |-> {}]

Init ==
    /\ cash = SeedCash
    /\ \E H \in SUBSET {"A"} : positions = [s \in H |-> SeedRow]
    /\ total_value \in {0, CalcTotal(cash, positions)}
    /\ orders = <<>>
    /\ lock = NoOwner
    /\ \E s \in Symbols : ticker = [t \in Traders |-> IF t = "T1" THEN "A" ELSE s]
    /\ trader = [t \in Traders |-> IdleTrader]
    /\ recon = IdleRecon
    /\ seed = [cash |-> cash, positions |-> positions]
    /\ reconciled = FALSE
    /\ started = 0
    /\ priceUpdates = 0
    /\ fifo = NoRuns
    /\ tieOrder = "id_asc"
    /\ storage = SoundStorage
    /\ monitor = IdleMonitor
    /\ performance = <<>>
    /\ strategy = NoStrategy

\* One step of place_order on trader t's connection, or of the run() that
\* called it.
TraderStep(t, Prices) ==
    \/ \E side \in {"buy", "sell"}, q \in OrderQtys, p \in Prices :
            PlaceInsert(t, side, q, p)
    \/ PlacePosition(t)
    \/ PlaceCash(t)
    \/ PlaceCommit(t)
    \/ PlaceRaise(t)
    \/ Close(t)

PriceStep == \E s \in Symbols, p \in MarkPrices : UpdatePrice(s, p)

ReconStep ==
    \/ \E op \in {"update", "check"} : CalcReadCash(op)
    \/ CalcReadPositions
    \/ UpdateWrite
    \/ UpdateBusy
    \/ CheckReadStored
    \/ ReconReturn

\* Order callers on separate connections sharing the database.
Next ==
    \/ \E t \in Traders : TraderStep(t, OrderPrices)
    \/ \E t \in Traders : PlaceBusy(t)
    \/ PriceStep

Spec == Init /\ [][Next]_vars

\* The reconciler running beside one order caller and the price writer.
InitRecon ==
    /\ Init
    /\ ticker = [t \in Traders |-> "A"]

NextRecon ==
    \/ TraderStep("T1", OrderPrices \cap Nat)
    \/ PriceStep
    \/ ReconStep

SpecRecon == InitRecon /\ [][NextRecon]_vars

\* init_account called by two processes on a database whose schema was just
\* created, and an order caller that trades once the account exists.
InitAccount ==
    /\ cash = 0
    /\ total_value = 0
    /\ positions = [s \in {} |-> SeedRow]
    /\ orders = <<>>
    /\ lock = NoOwner
    /\ ticker = [t \in Traders |-> "A"]
    /\ trader = [t \in Traders |-> IdleTrader]
    /\ recon = IdleRecon
    /\ seed = [cash |-> cash, positions |-> positions]
    /\ reconciled = FALSE
    /\ started = 0
    /\ priceUpdates = 0
    /\ fifo = NoRuns
    /\ tieOrder = "id_asc"
    /\ storage = [SoundStorage EXCEPT !.rows = {}]
    /\ monitor = IdleMonitor
    /\ performance = <<>>
    /\ strategy = NoStrategy

NextAccount ==
    \/ \E i \in Initers, b \in InitBalances : InitCount(i, b)
    \/ \E i \in Initers : InitInsert(i)
    \/ \E i \in Initers : InitInsertRaises(i)
    \/ \E i \in Initers : InitExists(i)
    \/ \E i \in Initers : InitReturn(i)
    \/ storage.rows # {} /\ TraderStep("T1", OrderPrices \cap Nat)

SpecAccount == InitAccount /\ [][NextAccount]_vars

\* run_scheduler: update_account_balance, add_performance_record and the
\* discrepancy check beside one order caller.
AuditPrices == {1, 3}

NextAudit ==
    \/ \E side \in {"buy", "sell"}, p \in AuditPrices :
            PlaceInsert("T1", side, Shares(1), p)
    \/ PlacePosition("T1")
    \/ PlaceCash("T1")
    \/ PlaceCommit("T1")
    \/ ReconStep
    \/ CalcReadCash("record")
    \/ PerformanceWrite
    \/ PerformanceBusy

SpecAudit == InitRecon /\ [][NextAudit]_vars


\* run_scheduler's periodic update_account_balance (lines 273 and 279-284)
\* beside one order caller and the price writer.
NextScheduler ==
    \/ \E side \in {"buy", "sell"}, p \in AuditPrices :
            PlaceInsert("T1", side, Shares(1), p)
    \/ PlacePosition("T1")
    \/ PlaceCash("T1")
    \/ PlaceCommit("T1")
    \/ PriceStep
    \/ CalcReadCash("update")
    \/ CalcReadPositions
    \/ UpdateWrite
    \/ UpdateBusy
    \/ ReconReturn

\* The scheduler's loop never ends (while True, lines 282-284), so the next
\* step of the current or of the next update is always taken.
SchedulerRuns ==
    \/ CalcReadCash("update")
    \/ CalcReadPositions
    \/ UpdateWrite
    \/ UpdateBusy
    \/ ReconReturn

\* place_order is straight-line code: a call that has begun runs to its
\* commit.
OrderCompletes ==
    \/ PlacePosition("T1")
    \/ PlaceCash("T1")
    \/ PlaceCommit("T1")

SpecScheduler ==
    /\ InitRecon
    /\ [][NextScheduler]_vars
    /\ WF_vars(SchedulerRuns)
    /\ WF_vars(OrderCompletes)

\* The order histories backfill_pnl is run on: up to MaxHistory orders, ids
\* in insertion order, timestamps never decreasing.
FifoQtys(s) == IF s = "A" THEN {Shares(1), Shares(3)} ELSE {Shares(1)}
BuyPrices == {1, 3}
SellPrices == {2}
Timestamps == {1, 2}

OrderRows(i) ==
    UNION {
        {[id |-> i, symbol |-> s, side |-> "buy", quantity |-> q, price |-> p,
          timestamp |-> ts, pnl |-> 0] :
             q \in FifoQtys(s), p \in BuyPrices, ts \in Timestamps}
        \cup
        {[id |-> i, symbol |-> s, side |-> "sell", quantity |-> q, price |-> p,
          timestamp |-> ts, pnl |-> 0] :
             q \in FifoQtys(s), p \in SellPrices, ts \in Timestamps}
        : s \in Symbols}

RECURSIVE Histories(_)
Histories(n) ==
    IF n = 0 THEN {<<>>}
    ELSE LET shorter == Histories(n - 1)
         IN  shorter \cup
             {Append(h, r) : h \in {g \in shorter : Len(g) = n - 1},
                             r \in OrderRows(n)}

NonDecreasing(h) == \A i \in 1..(Len(h) - 1) : h[i].timestamp <= h[i + 1].timestamp

InitFifo ==
    /\ cash = SeedCash
    /\ total_value = SeedCash
    /\ positions = [s \in {} |-> SeedRow]
    /\ orders \in {h \in Histories(MaxHistory) : NonDecreasing(h)}
    /\ lock = NoOwner
    /\ ticker = [t \in Traders |-> "A"]
    /\ trader = [t \in Traders |-> IdleTrader]
    /\ recon = IdleRecon
    /\ seed = [cash |-> cash, positions |-> positions]
    /\ reconciled = FALSE
    /\ started = 0
    /\ priceUpdates = 0
    /\ fifo = NoRuns
    /\ tieOrder \in {"id_asc", "id_desc"}
    /\ storage = SoundStorage
    /\ monitor = IdleMonitor
    /\ performance = <<>>
    /\ strategy = NoStrategy

NextFifo == \E dry_run \in BOOLEAN : Backfill(dry_run)

SpecFifo == InitFifo /\ [][NextFifo]_vars

\* backfill_pnl over histories whose sells may carry the P&L recorded when
\* they were placed. The positions table after the first n orders of h were
\* placed one by one (place_order, lines 100-138).
RECURSIVE PositionsAfter(_, _)
PositionsAfter(h, n) ==
    IF n = 0 THEN [s \in {} |-> SeedRow]
    ELSE LET pos == PositionsAfter(h, n - 1)
             o == h[n]
         IN  IF o.side = "buy"
             THEN PutRow(pos, o.symbol, BuyRow(pos, o.symbol, o.quantity, o.price))
             ELSE IF o.symbol \notin Held(pos) THEN pos
             ELSE IF SellCloses(pos[o.symbol].quantity, o.quantity)
                  THEN DeleteRow(pos, o.symbol)
                  ELSE [pos EXCEPT ![o.symbol].quantity = @ - o.quantity]

\* place_order, line 144: pnl = (price - pos['entry_price']) * quantity for
\* the k-th order of h, a sell of a held symbol; as a fraction.
TradeTimePnl(h, k) ==
    LET pos == PositionsAfter(h, k - 1)
        o == h[k]
    IN  IF o.side = "sell" /\ o.symbol \in Held(pos)
        THEN Frac((o.price * pos[o.symbol].entry_price[2]
                     - pos[o.symbol].entry_price[1]) * o.quantity,
                  pos[o.symbol].entry_price[2])
        ELSE <<0, 1>>

\* The rows of h, the sells chosen by recorded carrying their trade-time
\* P&L; chosen are only sells whose P&L is a whole number of the model's
\* units.
WithRecorded(h, recorded) ==
    [i \in DOMAIN h |-> IF recorded[i] THEN [h[i] EXCEPT !.pnl = TradeTimePnl(h, i)[1]]
                        ELSE h[i]]

Recordings(h) ==
    {recorded \in [DOMAIN h -> BOOLEAN] :
        \A i \in DOMAIN h : recorded[i] => TradeTimePnl(h, i)[2] = 1}

InitFifoRecorded ==
    /\ cash = SeedCash
    /\ total_value = SeedCash
    /\ positions = [s \in {} |-> SeedRow]
    /\ \E h \in {g \in Histories(MaxHistory) :
                    NonDecreasing(g) /\ \A i \in DOMAIN g : g[i].symbol = "A"} :
          \E recorded \in Recordings(h) : orders = WithRecorded(h, recorded)
    /\ lock = NoOwner
    /\ ticker = [t \in Traders |-> "A"]
    /\ trader = [t \in Traders |-> IdleTrader]
    /\ recon = IdleRecon
    /\ seed = [cash |-> cash, positions |-> positions]
    /\ reconciled = FALSE
    /\ started = 0
    /\ priceUpdates = 0
    /\ fifo = NoRuns
    /\ tieOrder = "id_asc"
    /\ storage = SoundStorage
    /\ monitor = IdleMonitor
    /\ performance = <<>>
    /\ strategy = NoStrategy

SpecFifoRecorded == InitFifoRecorded /\ [][NextFifo]_vars

\* The monitor over seeded positions, with the quote feed and order service.
Quotes == {1, 2, 3}
SeedStops == {0, 2}
SeedQtys == {Shares(2), Shares(2) + 1}

InitMonitor ==
    /\ cash = SeedCash
    /\ \E H \in SUBSET Symbols :
          positions \in [H -> {[SeedRow EXCEPT !.quantity = q, !.stop_loss = sl] :
                                   q \in SeedQtys, sl \in SeedStops}]
    /\ total_value = CalcTotal(cash, positions)
    /\ orders = <<>>
    /\ lock = NoOwner
    /\ ticker = [t \in Traders |-> "A"]
    /\ trader = [t \in Traders |-> IdleTrader]
    /\ recon = IdleRecon
    /\ seed = [cash |-> cash, positions |-> positions]
    /\ reconciled = FALSE
    /\ started = 0
    /\ priceUpdates = 0
    /\ fifo = NoRuns
    /\ tieOrder = "id_asc"
    /\ storage = SoundStorage
    /\ monitor = IdleMonitor
    /\ performance = <<>>
    /\ strategy = NoStrategy

NextMonitor ==
    \/ MonitorTick
    \/ \E q \in {NoQuote} \cup {<<p>> : p \in Quotes} : MonitorFetch(q)
    \/ \E p \in Quotes : MonitorPostFilled(p)
    \/ MonitorPostFailed
    \/ Signal
    \/ MonitorStop

SpecMonitor == InitMonitor /\ [][NextMonitor]_vars

\* The steps of the monitor process itself. Its calls return (the requests
\* carry timeouts of 5 and 10 seconds, the sleep is 10 seconds), so the
\* process is never stuck while one of its steps is possible.
MonitorRuns ==
    \/ MonitorTick
    \/ \E q \in {NoQuote} \cup {<<p>> : p \in Quotes} : MonitorFetch(q)
    \/ \E p \in Quotes : MonitorPostFilled(p)
    \/ MonitorPostFailed
    \/ MonitorStop

SpecMonitorLive == InitMonitor /\ [][NextMonitor]_vars /\ WF_vars(MonitorRuns)

\* The monitor beside one order caller trading the same symbol.
NextExit ==
    \/ MonitorTick
    \/ \E q \in {NoQuote} \cup {<<p>> : p \in Quotes} : MonitorFetch(q)
    \/ \E p \in Quotes : MonitorPostFilled(p)
    \/ MonitorPostFailed
    \/ TraderStep("T1", OrderPrices \cap Nat)

SpecExit == InitMonitor /\ [][NextExit]_vars

\* The reconciler's operations and the monitor on a database that may lack
\* its account row and may become unreachable.
InitFaults ==
    /\ cash = SeedCash
    /\ \E H \in SUBSET {"A"} :
          positions = [s \in H |-> [SeedRow EXCEPT !.stop_loss = 2]]
    /\ total_value \in {0, CalcTotal(cash, positions)}
    /\ orders = <<>>
    /\ lock = NoOwner
    /\ ticker = [t \in Traders |-> "A"]
    /\ trader = [t \in Traders |-> IdleTrader]
    /\ recon = IdleRecon
    /\ seed = [cash |-> cash, positions |-> positions]
    /\ reconciled = FALSE
    /\ started = 0
    /\ priceUpdates = 0
    /\ fifo = NoRuns
    /\ tieOrder = "id_asc"
    /\ storage \in {SoundStorage, [SoundStorage EXCEPT !.rows = {}]}
    /\ monitor = IdleMonitor
    /\ performance = <<>>
    /\ strategy = NoStrategy

NextFaults ==
    \/ StorageFails
    \/ StorageRecovers
    \/ \E op \in {"update", "check", "record"} : CalcReadCash(op)
    \/ \E op \in {"update", "check", "record"} : CalcFails(op)
    \/ CalcReadPositions
    \/ OperationFails
    \/ UpdateWrite
    \/ CheckReadStored
    \/ PerformanceWrite
    \/ ReconReturn
    \/ MonitorTick
    \/ MonitorTickRaises
    \/ \E q \in {NoQuote} \cup {<<p>> : p \in Quotes} : MonitorFetch(q)
    \/ \E p \in Quotes : MonitorPostFilled(p)
    \/ MonitorPostFailed

SpecFaults == InitFaults /\ [][NextFaults]_vars

\* The analyzer over the trade histories of one strategy: up to three runs
\* of equal exits, then the trades written while it works.
RunPnls == {-20, -1, 4}
RunCounts == {4, 5, 11}
ExitPnls == {-3, 0, 4}

RunsOf(n) == [1..n -> RunPnls \X RunCounts]

RECURSIVE TradesOf(_)
TradesOf(runs) ==
    IF runs = <<>> THEN <<>>
    ELSE [i \in 1..Head(runs)[2] |-> [side |-> "sell", pnl |-> Head(runs)[1]]]
           \o TradesOf(Tail(runs))

InitAnalytics ==
    /\ cash = SeedCash
    /\ total_value = SeedCash
    /\ positions = [s \in {} |-> SeedRow]
    /\ orders = <<>>
    /\ lock = NoOwner
    /\ ticker = [t \in Traders |-> "A"]
    /\ trader = [t \in Traders |-> IdleTrader]
    /\ recon = IdleRecon
    /\ seed = [cash |-> cash, positions |-> positions]
    /\ reconciled = FALSE
    /\ started = 0
    /\ priceUpdates = 0
    /\ fifo = NoRuns
    /\ tieOrder = "id_asc"
    /\ storage = SoundStorage
    /\ monitor = IdleMonitor
    /\ performance = <<>>
    /\ \E runs \in RunsOf(0) \cup RunsOf(1) \cup RunsOf(2) \cup RunsOf(3) :
          strategy = [NoStrategy EXCEPT !.trades = TradesOf(runs)]

NextAnalytics ==
    \/ \E pnl \in ExitPnls : RecordTrade("sell", pnl)
    \/ RecordTrade("buy", 0)
    \/ UpdateStrategyPerformance
    \/ CheckOptimizationTriggers
    \/ CalculateProfitFactor

SpecAnalytics == InitAnalytics /\ [][NextAnalytics]_vars

\* ================================================================ claims

\* What one order does to a holding and to cash, as the ledger contract
\* states it: a buy adds shares and spends quantity * price; a sell of a held
\* symbol removes shares (none are left below zero) and earns quantity * price.
HeldQty(pos, s) == IF s \in DOMAIN pos THEN pos[s].quantity ELSE 0

QtyAfterOrder(old, o) ==
    IF o.side = "buy" THEN old + o.quantity
    ELSE IF old - o.quantity > 0 THEN old - o.quantity ELSE 0

CashAfterOrder(c, old, o) ==
    IF o.side = "buy" THEN c - o.quantity * o.price
    ELSE IF old = 0 THEN c ELSE c + o.quantity * o.price

\* The step commits exactly the one order trader t is placing.
WholeOrder(t) ==
    /\ trader[t].pc = "cashed"
    /\ trader'[t].pc = "idle"
    /\ Len(orders') = Len(orders) + 1
    /\ SubSeq(orders', 1, Len(orders)) = orders
    /\ LET o == orders'[Len(orders')]
           old == HeldQty(positions, ticker[t])
       IN  /\ o.symbol = ticker[t]
           /\ o.side = trader[t].side
           /\ o.quantity = trader[t].quantity
           /\ o.price = trader[t].price
           /\ HeldQty(positions', ticker[t]) = QtyAfterOrder(old, o)
           /\ cash' = CashAfterOrder(cash, old, o)
           /\ \A s \in Symbols \ {ticker[t]} :
                  /\ s \in DOMAIN positions' <=> s \in DOMAIN positions
                  /\ s \in DOMAIN positions => positions'[s] = positions[s]

\* The step only marks positions to a new current_price.
OnlyPrices ==
    /\ cash' = cash
    /\ orders' = orders
    /\ DOMAIN positions' = DOMAIN positions
    /\ \A s \in DOMAIN positions :
           positions'[s] = [positions[s] EXCEPT !.current_price = positions'[s].current_price]

\* C2: place_order is one atomic unit. The committed ledger, which is all
\* that another connection can read, changes only by a step that publishes
\* every write of one order together (order row, position upsert/delete and
\* cash); the steps of an order that raises publish nothing.
C2_PlaceOrderAtomic ==
    [][ledger' # ledger => (OnlyPrices \/ \E t \in Traders : WholeOrder(t))]_vars

\* C2 witness: an order failed after staging all of its writes, none visible.
C2_Witness ==
    \E t \in Traders :
        /\ trader[t].pc = "raised"
        /\ trader[t].tx.ins # <<>>
        /\ trader[t].tx.setcash # <<>>
        /\ trader[t].tx.del
        /\ ticker[t] \in DOMAIN positions

\* The ledger implied by replaying the committed orders one after another.
RECURSIVE ReplayQty(_, _, _)
ReplayQty(q0, os, s) ==
    IF os = <<>> THEN q0
    ELSE LET o == Head(os)
         IN  ReplayQty(IF o.symbol = s THEN QtyAfterOrder(q0, o) ELSE q0, Tail(os), s)

RECURSIVE ReplayCash(_, _, _)
ReplayCash(c0, pos0, os) ==
    IF os = <<>> THEN c0
    ELSE LET o == Head(os)
             old == pos0[o.symbol]
         IN  ReplayCash(CashAfterOrder(c0, old, o),
                        [pos0 EXCEPT ![o.symbol] = QtyAfterOrder(old, o)],
                        Tail(os))

SeedQty == [s \in Symbols |-> HeldQty(seed.positions, s)]

\* C4: place_order calls from separate connections are serialized by the
\* database's write lock: the committed cash and every symbol's quantity are
\* those of the committed orders applied one after another, none lost.
C4_NoLostUpdate ==
    /\ cash = ReplayCash(seed.cash, SeedQty, orders)
    /\ \A s \in Symbols : HeldQty(positions, s) = ReplayQty(SeedQty[s], orders, s)

\* C4 witness: both connections have committed an order for the same symbol.
C4_Witness ==
    /\ \A t \in Traders : trader[t].committed >= 1 /\ trader[t].pc = "idle"
    /\ \A t \in Traders : ticker[t] = "A"
    /\ Len(orders) >= 2

\* The order trader t is placing sells shares that are not held, or carries
\* a negative price.
InvalidOrder(t) ==
    \/ trader[t].price < 0
    \/ /\ trader[t].side = "sell"
       /\ trader[t].quantity > HeldQty(positions, ticker[t])

\* C9: an order that would drive a quantity negative, or with a negative
\* price, is rejected with orders, positions and cash left unchanged.
C9_RejectsInvalidOrder ==
    [][\A t \in Traders :
          (trader[t].pc = "cashed" /\ InvalidOrder(t)) => ledger' = ledger]_vars

C1_ReconciledTotal ==
    reconciled =>
        /\ Abs(total_value - LedgerTotal(cash, positions)) * 100 < Dollars(1)
        /\ (recon.pc = "returned" /\ recon.op = "check") => ~recon.has_issue

\* C1 witness: after an order and a price change an update healed a drifted
\* total and the follow-up check has returned.
C1_Witness ==
    /\ reconciled
    /\ recon.pc = "returned" /\ recon.op = "check"
    /\ Len(orders) >= 1
    /\ priceUpdates >= 1
    /\ total_value # 0

\* C3: the total a reconciliation writes is cash + sum(quantity *
\* current_price) of one committed ledger state it ran over, never a mix of
\* the state before a concurrent order and the state after it.
C3_ConsistentSnapshot ==
    (recon.pc = "returned" /\ recon.op = "update" /\ recon.ok)
        => recon.total \in recon.seen

\* ---------------------------------------------------------------- FIFO
\* The reference for FIFO matching keeps, per symbol, the open holding one
\* unit (1/Scale share) at a time, oldest first, each with its unit cost.
Copies(x, n) == [i \in 1..n |-> x]

RECURSIVE SumSeq(_)
SumSeq(q) == IF q = <<>> THEN 0 ELSE Head(q) + SumSeq(Tail(q))

Min(a, b) == IF a < b THEN a ELSE b

RECURSIVE UnitCosts(_)
UnitCosts(lots) ==
    IF lots = <<>> THEN <<>>
    ELSE Copies(Head(lots).price, Head(lots).quantity) \o UnitCosts(Tail(lots))

RECURSIVE UnitReplay(_, _)
UnitReplay(list, st) ==
    IF list = <<>> THEN st
    ELSE LET o == Head(list)
             open == st.units[o.symbol]
             k == Min(o.quantity, Len(open))
         IN  IF o.side = "buy"
             THEN UnitReplay(Tail(list),
                     [st EXCEPT !.units[o.symbol] = open \o Copies(o.price, o.quantity)])
             ELSE UnitReplay(Tail(list),
                     [units |-> [st.units EXCEPT ![o.symbol] =
                                     SubSeq(open, k + 1, Len(open))],
                      pnl |-> Append(st.pnl,
                                 [id |-> o.id,
                                  pnl |-> SumSeq([i \in 1..k |-> o.price - open[i]])]),
                      short |-> IF k < o.quantity
                                THEN Append(st.short,
                                        [id |-> o.id, unmatched |-> o.quantity - k])
                                ELSE st.short])

UnitResult(list) ==
    UnitReplay(list, [units |-> [s \in Symbols |-> <<>>], pnl |-> <<>>, short |-> <<>>])

ExampleRow(i, side, shares, price) ==
    [id |-> i, symbol |-> "A", side |-> side, quantity |-> Shares(shares),
     price |-> price, timestamp |-> i, pnl |-> 0]

\* buy 50@400, buy 50@410, sell 100@430 gives 2500.
ExampleTwoLots ==
    LET st == FifoLoop(<<ExampleRow(1, "buy", 50, 400), ExampleRow(2, "buy", 50, 410),
                         ExampleRow(3, "sell", 100, 430)>>, FifoStart)
    IN  /\ st.calc = <<[id |-> 3, pnl |-> Dollars(2500)]>>
        /\ st.lots["A"] = <<>>

\* buy 100@300, sell 30@320 gives 600 leaving 70@300; sell 40@310 gives 400
\* leaving 30@300.
ExamplePartial ==
    LET first == FifoLoop(<<ExampleRow(1, "buy", 100, 300),
                            ExampleRow(2, "sell", 30, 320)>>, FifoStart)
        second == ProcessOrder(first, ExampleRow(3, "sell", 40, 310))
    IN  /\ first.calc = <<[id |-> 2, pnl |-> Dollars(600)]>>
        /\ Len(first.lots["A"]) = 1
        /\ first.lots["A"][1].quantity = Shares(70)
        /\ first.lots["A"][1].price = 300
        /\ second.calc[2] = [id |-> 3, pnl |-> Dollars(400)]
        /\ Len(second.lots["A"]) = 1
        /\ second.lots["A"][1].quantity = Shares(30)
        /\ second.lots["A"][1].price = 300

\* C5: the P&L computed for every sell is the sum over the units it takes,
\* oldest first, of (sell price - unit cost); the lots left are exactly the
\* units not taken, in order and at their cost, a lot used whole being
\* discarded and a lot used in part staying at the head, shrunk.
C5_FifoMatching ==
    /\ ExampleTwoLots
    /\ ExamplePartial
    /\ fifo.last # <<>> =>
          LET run == fifo.last[1]
              ref == UnitResult(run.list)
          IN  /\ run.calc = ref.pnl
              /\ \A s \in Symbols :
                    /\ UnitCosts(run.lots[s]) = ref.units[s]
                    /\ \A i \in DOMAIN run.lots[s] : run.lots[s][i].quantity > 0

\* C5 witness: a sell of 3 shares used the 1-share lot bought at 1 whole and
\* 2 of the 3 shares bought at 3, which stay at the head as 1 share at 3.
C5_Witness ==
    /\ fifo.last # <<>>
    /\ Len(fifo.last[1].list) = 3
    /\ fifo.last[1].calc = <<[id |-> 3, pnl |-> Dollars(1) - Dollars(2)]>>
    /\ Len(fifo.last[1].lots["A"]) = 1
    /\ fifo.last[1].lots["A"][1].quantity = Shares(1)
    /\ fifo.last[1].lots["A"][1].price = 3

\* C6: a run on the database left by a run with --apply computes the same
\* realized_pnl for every sell and finds no order to update.
C6_BackfillIdempotent ==
    fifo.applied # <<>> =>
        /\ fifo.last[1].calc = fifo.applied[1]
        /\ fifo.last[1].updates = <<>>

\* C6 witness: the --apply run wrote a non-zero P&L and a run followed it.
C6_Witness ==
    /\ fifo.applied # <<>>
    /\ \E i \in DOMAIN orders : orders[i].side = "sell" /\ orders[i].pnl # 0
    /\ \E i \in DOMAIN orders : orders[i].side = "sell" /\ orders[i].pnl = 0

\* The units of symbol s open just before the k-th order of the list.
OpenBefore(list, k, s) == UnitResult(SubSeq(list, 1, k - 1)).units[s]

WarningsFor(run, id) == {i \in DOMAIN run.warnings : run.warnings[i].id = id}

PnlFor(run, id) == {run.calc[i].pnl : i \in {j \in DOMAIN run.calc : run.calc[j].id = id}}

\* C7: a sell of more than its symbol's open lots is reported once, with
\* the quantity left unmatched; that part adds nothing to its P&L, the part
\* that was matched is realized as usual; other sells are not reported.
C7_UnmatchedSell ==
    fifo.last # <<>> =>
        LET run == fifo.last[1]
        IN  \A k \in DOMAIN run.list :
                LET o == run.list[k]
                    open == OpenBefore(run.list, k, o.symbol)
                IN  o.side = "sell" =>
                      IF o.quantity > Len(open)
                      THEN /\ Cardinality(WarningsFor(run, o.id)) = 1
                           /\ \A i \in WarningsFor(run, o.id) :
                                 run.warnings[i].unmatched = o.quantity - Len(open)
                           /\ PnlFor(run, o.id) =
                                 {SumSeq([i \in DOMAIN open |-> o.price - open[i]])}
                      ELSE WarningsFor(run, o.id) = {}

\* C7 witness: 3 shares sold with 1 share open: 2 unmatched, P&L of 1 share.
C7_Witness ==
    /\ fifo.last # <<>>
    /\ \E i \in DOMAIN fifo.last[1].warnings :
          /\ fifo.last[1].warnings[i].unmatched = Shares(2)
          /\ fifo.last[1].warnings[i].quantity = Shares(3)
          /\ PnlFor(fifo.last[1], fifo.last[1].warnings[i].id) = {Dollars(1)}
    /\ \E i \in DOMAIN fifo.last[1].warnings :
          /\ fifo.last[1].warnings[i].unmatched = fifo.last[1].warnings[i].quantity
          /\ PnlFor(fifo.last[1], fifo.last[1].warnings[i].id) = {0}

\* ------------------------------------------------------------- monitor
\* C8: a triggered position gets exactly one exit order, for its full
\* quantity, and is then removed; no later tick places a second one.
C8_SingleFullExit ==
    /\ \A i \in DOMAIN monitor.exits :
          /\ monitor.exits[i].quantity = monitor.exits[i].held
          /\ monitor.exits[i].symbol \notin DOMAIN positions
    /\ \A i, j \in DOMAIN monitor.exits :
          monitor.exits[i].symbol = monitor.exits[j].symbol => i = j

\* ------------------------------------------------------------ reconciler
\* The step is one of a run of the reconciler operation op (the return to
\* the scheduler, which runs no code of the operation, is not).
StepOf(op) ==
    /\ recon'.pc # recon.pc
    /\ recon'.pc # "idle"
    /\ recon'.op = op

\* C11: update_account_balance changes account.total_value only: its steps
\* leave cash, every position row, the orders and the performance table as
\* they were, and the step that succeeds stores the total it computed,
\* whatever the stored total was.
C11_UpdateFrame ==
    [][StepOf("update") =>
          /\ cash' = cash
          /\ positions' = positions
          /\ orders' = orders
          /\ performance' = performance
          /\ IF recon'.pc = "returned" /\ recon'.ok
             THEN total_value' = recon.total
             ELSE total_value' = total_value]_vars

\* C11 witness: an update has replaced a drifted total after an order moved
\* cash and a performance row was written.
C11_Witness ==
    /\ recon.pc = "returned" /\ recon.op = "update" /\ recon.ok
    /\ total_value \notin {0, LedgerTotal(seed.cash, seed.positions)}
    /\ cash # seed.cash
    /\ performance # <<>>

\* C12: check_balance_discrepancy reports computed total - stored
\* total_value (the ledger's total when nothing changed under it), has_issue
\* exactly when the absolute discrepancy is strictly above 1.00, and none of
\* its steps writes cash, total_value, positions, orders or performance.
C12_CheckDiscrepancy ==
    /\ []((recon.pc = "returned" /\ recon.op = "check" /\ recon.ok) =>
             /\ recon.discrepancy = recon.total - recon.stored
             /\ recon.has_issue <=> (Abs(recon.discrepancy) > Dollars(1))
             /\ ~recon.dirty =>
                   recon.discrepancy = LedgerTotal(cash, positions) - total_value)
    /\ [][StepOf("check") =>
             /\ cash' = cash
             /\ total_value' = total_value
             /\ positions' = positions
             /\ orders' = orders
             /\ performance' = performance]_vars

\* C12 witness: a check found a drift of exactly 1.00 and reported no issue.
C12_Witness ==
    /\ recon.pc = "returned" /\ recon.op = "check" /\ recon.ok
    /\ Abs(recon.discrepancy) = Dollars(1)
    /\ ~recon.has_issue
    /\ ~recon.dirty
    /\ orders # <<>>

\* C13: check_optimization_triggers returns true exactly when a performance
\* row is stored and the row has at least 5 consecutive losses, or at least
\* 20 trades with a win rate below 0.40, or a current drawdown above 0.15,
\* or at least 20 trades with a negative total P&L; without a stored row it
\* returns false.
C13_Triggers ==
    strategy.result # <<>> =>
        (strategy.result[1].should_optimize <=>
            /\ strategy.perf # <<>>
            /\ LET p == strategy.perf[1]
               IN  \/ p.consecutive_losses >= 5
                   \/ p.total_trades >= 20 /\ 100 * p.win_rate[1] < 40 * p.win_rate[2]
                   \/ 100 * p.current_drawdown[1] > 15 * p.current_drawdown[2]
                   \/ p.total_trades >= 20 /\ p.total_pnl < 0)

\* C13 witness: the check returned true for a row whose loss streak is
\* exactly five and that meets no other trigger.
C13_Witness ==
    /\ strategy.result # <<>>
    /\ strategy.result[1].should_optimize
    /\ strategy.perf # <<>>
    /\ strategy.perf[1].consecutive_losses = 5
    /\ strategy.perf[1].total_trades < 20
    /\ strategy.perf[1].current_drawdown[1] * 100 <= 15 * strategy.perf[1].current_drawdown[2]

\* The closed trades of the strategy: the exits among its rows, in order.
ClosedTrades(trades) == SelectSeq(trades, LAMBDA t : t.side = "sell")

\* The n most recent trades of a list are all losing.
LastAllLosing(trades, n) ==
    /\ Len(trades) >= n
    /\ \A i \in (Len(trades) - n + 1)..Len(trades) : trades[i].pnl < 0

\* The stored row was computed from the rows as they are now.
PerformanceCurrent ==
    /\ strategy.perf # <<>>
    /\ strategy.perf[1].total_trades = Len(strategy.trades)

\* C14: when the five most recent closed trades of the strategy are all
\* losing, a check made after the performance was updated returns true with
\* the reason "5 consecutive losses", whatever else holds.
C14_LossStreakFlagged ==
    (/\ strategy.result # <<>>
     /\ PerformanceCurrent
     /\ LastAllLosing(ClosedTrades(strategy.trades), 5))
    => /\ strategy.result[1].should_optimize
       /\ strategy.result[1].reason = "5 consecutive losses"

\* The positions of the winning trades of a list.
Winners(trades) == {i \in DOMAIN trades : trades[i].pnl > 0}

\* C15: over closed trades, win_rate is winning_trades / total_trades, a
\* trade with pnl = 0 is not a win and counts as a loss, so that
\* winning_trades + losing_trades = total_trades.
C15_WinRate ==
    (/\ PerformanceCurrent
     /\ \A i \in DOMAIN strategy.trades : strategy.trades[i].side = "sell")
    => LET p == strategy.perf[1]
           n == Len(strategy.trades)
           w == Cardinality(Winners(strategy.trades))
       IN  /\ p.total_trades = n
           /\ p.winning_trades = w
           /\ p.win_rate[1] * n = w * p.win_rate[2]
           /\ p.winning_trades + p.losing_trades = p.total_trades

\* The positions of the losing trades of a list, and the P&L by position.
Losers(trades) == {i \in DOMAIN trades : trades[i].pnl < 0}

PnlAt(trades) == [i \in DOMAIN trades |-> trades[i].pnl]

\* C16: the profit factor is gross_profit / gross_loss when the gross loss
\* is positive; when it is zero the result is the gross profit if that is
\* positive and 0 otherwise. No list of trades, the empty one included,
\* yields a division by zero.
C16_ProfitFactor ==
    strategy.profit_factor # <<>> =>
        LET value == strategy.profit_factor[1]
            gross_profit == SumOver(Winners(strategy.trades), PnlAt(strategy.trades))
            gross_loss == 0 - SumOver(Losers(strategy.trades), PnlAt(strategy.trades))
        IN  /\ value[2] # 0
            /\ gross_loss > 0 => value[1] * gross_loss = gross_profit * value[2]
            /\ gross_loss = 0 /\ gross_profit > 0 => value = <<gross_profit, 1>>
            /\ gross_loss = 0 /\ gross_profit <= 0 => value = <<0, 1>>

\* C16 witness: the profit factor of a list of winners only was computed
\* and is their gross profit.
C16_Witness ==
    /\ strategy.profit_factor # <<>>
    /\ strategy.trades # <<>>
    /\ Losers(strategy.trades) = {}
    /\ Winners(strategy.trades) = DOMAIN strategy.trades
    /\ strategy.profit_factor[1][1] > 0

\* ----------------------------------------------------- monitor, continued
\* The symbols of the positions that have a stop-loss.
Watched == {s \in DOMAIN positions : positions[s].stop_loss > 0}

\* C17: when no quote is obtained for a symbol, the step places no order and
\* leaves the position as it was (so it stays watched), the remaining
\* positions of the iteration are still processed, the symbol is not taken
\* up again in that iteration, and the next iteration examines every watched
\* position again.
C17_NoQuoteSkips ==
    /\ [][(/\ monitor.pc = "fetch"
           /\ Head(monitor.work).symbol \in monitor'.skipped)
          => /\ orders' = orders
             /\ positions' = positions
             /\ cash' = cash
             /\ monitor'.exits = monitor.exits
             /\ monitor'.work = Tail(monitor.work)
             /\ monitor'.work # <<>> => monitor'.pc = "fetch"]_vars
    /\ [][monitor.pc = "sleep" /\ monitor'.pc = "fetch"
          => {monitor'.work[i].symbol : i \in DOMAIN monitor'.work} = Watched]_vars
    /\ [](\A i \in DOMAIN monitor.work : monitor.work[i].symbol \notin monitor.skipped)

\* C17 witness: in one iteration the quote of a position was missing, the
\* position is still watched, and the next position of the list has been
\* quoted and is being sold.
C17_Witness ==
    /\ monitor.pc = "post"
    /\ monitor.skipped # {}
    /\ monitor.skipped \subseteq Watched
    /\ Head(monitor.work).symbol \notin monitor.skipped

\* C18: a shutdown signal changes nothing of the iteration under way; once
\* it has arrived no new iteration is started; the monitor stops only with
\* no position of an iteration left to handle; and it does stop.
C18_Shutdown ==
    /\ [][monitor.running /\ ~monitor'.running
          => /\ monitor'.pc = monitor.pc
             /\ monitor'.work = monitor.work
             /\ monitor'.price = monitor.price
             /\ orders' = orders
             /\ positions' = positions]_vars
    /\ [][~monitor.running => ~(monitor.pc = "sleep" /\ monitor'.pc = "fetch")]_vars
    /\ [](monitor.pc = "stopped" => monitor.work = <<>> /\ ~monitor.running)
    /\ (~monitor.running ~> monitor.pc = "stopped")

\* C18 witness: the signal arrived while a sell was being submitted, the
\* sell was filled afterwards, and the monitor has stopped.
C18_Witness ==
    /\ monitor.pc = "stopped"
    /\ monitor.interrupted = "post"
    /\ monitor.exits # <<>>
    /\ Len(orders) = 1

\* ------------------------------------------------------ orders, backfill
\* C19: no step changes or deletes an existing order row, except that the
\* pnl of a sell whose stored pnl was zero may be set; a stored pnl that is
\* not zero is never overwritten.
C19_OrdersImmutable ==
    [][/\ Len(orders') >= Len(orders)
       /\ \A i \in DOMAIN orders :
             \/ orders'[i] = orders[i]
             \/ /\ orders[i].side = "sell"
                /\ orders[i].pnl = 0
                /\ orders'[i] = [orders[i] EXCEPT !.pnl = orders'[i].pnl]]_vars

\* C20: a run of backfill_pnl leaves account.cash, account.total_value and
\* the positions as they were; a dry run leaves the orders as they were
\* too; a run with --apply changes nothing but the pnl of sell orders.
C20_BackfillFrame ==
    [][fifo' # fifo =>
          /\ cash' = cash
          /\ total_value' = total_value
          /\ positions' = positions
          /\ fifo'.last[1].dry_run => orders' = orders
          /\ DOMAIN orders' = DOMAIN orders
          /\ \A i \in DOMAIN orders :
                /\ orders'[i] = [orders[i] EXCEPT !.pnl = orders'[i].pnl]
                /\ orders'[i] # orders[i] => orders[i].side = "sell"]_vars

\* C20 witness: a run with --apply has written the pnl of a sell order,
\* and a dry run after it found nothing more to write.
C20_Witness ==
    /\ fifo.last # <<>>
    /\ fifo.last[1].dry_run
    /\ fifo.applied # <<>>
    /\ \E i \in DOMAIN orders : orders[i].side = "sell" /\ orders[i].pnl # 0

\* ------------------------------------------------- analytics, continued
\* The length of the run of losing trades that ends a list.
TrailingLosses(trades) ==
    CHOOSE k \in 0..Len(trades) :
        /\ LastAllLosing(trades, k)
        /\ k < Len(trades) => ~LastAllLosing(trades, k + 1)

\* C29: the stored metrics are those of the closed trades only: an entry
\* row (side buy, pnl 0) is not counted in total_trades, does not lower
\* win_rate and does not end the streak of consecutive losses.
C29_ClosedTradesOnly ==
    PerformanceCurrent =>
        LET p == strategy.perf[1]
            closed == ClosedTrades(strategy.trades)
        IN  /\ p.total_trades = Len(closed)
            /\ p.win_rate[1] * Len(closed) = Cardinality(Winners(closed)) * p.win_rate[2]
            /\ p.consecutive_losses = TrailingLosses(closed)

\* ---------------------------------------------------- backfill, continued
\* C24: the orders are processed by ascending timestamp, equal timestamps
\* by ascending id, and the P&L computed for each sell is the one this
\* order of processing gives, however the database returns rows of equal
\* timestamp.
C24_TieByInsertion ==
    fifo.last # <<>> =>
        LET list == fifo.last[1].list
        IN  /\ \A i, j \in DOMAIN list :
                  i < j => \/ list[i].timestamp < list[j].timestamp
                           \/ /\ list[i].timestamp = list[j].timestamp
                              /\ list[i].id < list[j].id
            /\ fifo.last[1].calc = FifoLoop(ReadOrders(orders, "id_asc"), FifoStart).calc

\* ------------------------------------------------------ ledger, continued
\* The orders of a side for symbol s, by position in the orders table, and
\* their total quantity and total quantity * price.
OrdersOf(side, s) == {i \in DOMAIN orders : orders[i].side = side /\ orders[i].symbol = s}

QuantityOf(S) == SumOver(S, [i \in S |-> orders[i].quantity])

AmountOf(S) == SumOver(S, [i \in S |-> orders[i].quantity * orders[i].price])

\* C28: the committed ledger is the one the order history implies: each
\* symbol's quantity is what was held at the start plus its buys minus its
\* sells, with no row when that is 0, and cash is the initial cash minus the
\* amounts bought plus the amounts sold.
C28_LedgerIsHistory ==
    /\ \A s \in Symbols :
          LET net == SeedQty[s] + QuantityOf(OrdersOf("buy", s))
                                - QuantityOf(OrdersOf("sell", s))
          IN  /\ s \in DOMAIN positions <=> net # 0
              /\ s \in DOMAIN positions => positions[s].quantity = net
    /\ cash = seed.cash
                - AmountOf(UNION {OrdersOf("buy", s) : s \in Symbols})
                + AmountOf(UNION {OrdersOf("sell", s) : s \in Symbols})

\* -------------------------------------------------- reconciler, continued
\* C21: completing an order reconciles: when a place_order returns after
\* its commit, account.total_value is cash + sum(quantity * current_price)
\* of the ledger the order left.
C21_ReconciledAfterOrder ==
    [][\A t \in Traders :
          (trader[t].pc = "cashed" /\ trader'[t].pc = "idle")
              => total_value' = CalcTotal(cash', positions')]_vars

\* C25: a reconciliation that overwrites total_value with a total differing
\* from it by more than the threshold has recorded that discrepancy before
\* the write (recon.has_issue stands for the warning of lines 220-224, which
\* is logged exactly when it is set, recon.discrepancy for the amount).
C25_DriftLoggedFirst ==
    [][Abs(total_value' - total_value) > DiscrepancyThreshold
          => /\ recon.has_issue
             /\ recon.discrepancy = total_value' - total_value]_vars

\* C26: the monitor submits a sell for a symbol exactly when the position
\* has a stop-loss above zero, a quote was obtained and the quote is at or
\* below the stop-loss (a quote equal to the stop-loss triggers); a position
\* without a stop-loss is never put on the monitor's list and never sold.
C26_SellIffTriggered ==
    /\ [][monitor.pc = "fetch" /\ monitor'.pc = "post"
          => LET s == Head(monitor.work).symbol
             IN  /\ s \in DOMAIN positions
                 /\ positions[s].stop_loss > 0
                 /\ monitor'.price \in Quotes
                 /\ monitor'.price <= positions[s].stop_loss]_vars
    /\ [][\A p \in Quotes :
             (/\ MonitorFetch(<<p>>)
              /\ positions[Head(monitor.work).symbol].stop_loss > 0
              /\ p <= positions[Head(monitor.work).symbol].stop_loss)
             => monitor'.pc = "post" /\ monitor'.price = p]_vars
    /\ [][MonitorFetch(NoQuote) => monitor'.pc # "post"]_vars
    /\ [](\A i \in DOMAIN monitor.work :
             /\ monitor.work[i].symbol \in DOMAIN seed.positions
             /\ seed.positions[monitor.work[i].symbol].stop_loss > 0)
    /\ [](\A i \in DOMAIN orders :
             seed.positions[orders[i].symbol].stop_loss > 0)

\* A sell was submitted at a quote equal to the stop-loss and filled, while
\* a position without a stop-loss is held.
C26_Witness ==
    /\ \E i \in DOMAIN orders :
          orders[i].price = seed.positions[orders[i].symbol].stop_loss
    /\ \E s \in DOMAIN positions : positions[s].stop_loss = 0
    /\ monitor.pc = "sleep"

\* C30: under any interleaving of the monitor with another order caller,
\* an exit order of the monitor never sells more shares than the position
\* holds when the order is applied, so cash is never credited for shares
\* that were not held.
C30_ExitWithinHolding ==
    \A i \in DOMAIN monitor.exits :
        monitor.exits[i].quantity <= monitor.exits[i].held

C22_FailuresContained ==
    /\ [][(/\ recon' # recon
           /\ recon.pc \in {"idle", "cashread", "computed"}
           /\ ~storage.up \/ 1 \notin storage.rows)
          => /\ recon'.pc = "returned"
             /\ ~recon'.ok
             /\ <<cash, total_value, positions, orders, performance>>'
                   = <<cash, total_value, positions, orders, performance>>
             /\ storage'.rows = storage.rows]_vars
    /\ [](recon.pc \in {"idle", "cashread", "computed", "returned"})
    /\ [][(/\ monitor' # monitor
           /\ monitor.pc = "sleep"
           /\ ~storage.up)
          => /\ monitor'.pc = "sleep"
             /\ monitor'.error
             /\ monitor'.running
             /\ <<cash, total_value, positions, orders, performance>>'
                   = <<cash, total_value, positions, orders, performance>>]_vars
    /\ [](monitor.pc \in {"sleep", "fetch", "post"})
    /\ [][monitor.error /\ monitor'.pc = "fetch" => ~monitor'.error]_vars

\* In an outage add_performance_record has failed after the total was
\* computed, inserting nothing, and an iteration of the monitor has ended in
\* the logged error with the loop still running.
C22_Witness ==
    /\ 1 \in storage.rows
    /\ ~storage.up
    /\ recon.pc = "returned"
    /\ recon.op = "record"
    /\ ~recon.ok
    /\ recon.total > 0
    /\ performance = <<>>
    /\ monitor.pc = "sleep"
    /\ monitor.error
    /\ LoopContinues(monitor)

\* C27: once the ledger's mutations have stopped and the periodic reconciler
\* keeps running, total_value comes to equal cash + sum(quantity *
\* current_price) and stays equal, whatever an earlier update that ran
\* across an order or a price update has written.
C27_EventuallyReconciled ==
    <>[](total_value = LedgerTotal(cash, positions))

\* An update that ran across a ledger mutation has committed a total that
\* is not the ledger's.
C27_Witness ==
    /\ recon.pc = "returned"
    /\ recon.op = "update"
    /\ recon.ok
    /\ recon.dirty
    /\ total_value = recon.total
    /\ total_value # LedgerTotal(cash, positions)

====
